---- MODULE Spec2Model ----
(***************************************************************************)
(* A model of shortstr (src/src/shortstr/__init__.py): the alphabets, the  *)
(* generator generate(), the validator isValid() and the format checker     *)
(* _checkSSFormatArg().                                                     *)
(*                                                                          *)
(* A character is its Unicode code point, a Python str is a sequence of     *)
(* code points, a bytes object is a sequence of numbers 0..255.  The model  *)
(* is of the module running under Python 3, where RUNNING_PY_2 (line 40)   *)
(* is False and lines 118 and 146 compute the checksum.                     *)
(***************************************************************************)
EXTENDS Integers, Sequences, FiniteSets

(***************************************************************************)
(* Bounds of the model.                                                     *)
(***************************************************************************)
\* longest format string handed to generate and _checkSSFormatArg
\* (generate() with its default format is called as well)
MaxFormatLen == 2
\* number of outcomes of one SYS_RAND.choice the model follows
MaxDraw == 2
\* a repeatFunc answers False at the latest on its N-th call, N <= MaxRepeat
MaxRepeat == 2
\* longest payload (candidate without its last character) handed to isValid
MaxPayloadLen == 2

(***************************************************************************)
(* Module constants, lines 17-40.                                           *)
(***************************************************************************)
\* 'abcdefghijkmnpqrstuvwxyzABCDEFGHJKLMNPQRSTUVWXYZ23456789'
GLYPHS_withL ==
    << 97, 98, 99, 100, 101, 102, 103, 104, 105, 106, 107, 108, 110,
       112, 113, 114, 115, 116, 117, 118, 119, 120, 121, 122,
       65, 66, 67, 68, 69, 70, 71, 72, 74, 75, 76, 77, 78,
       80, 81, 82, 83, 84, 85, 86, 87, 88, 89, 90,
       50, 51, 52, 53, 54, 55, 56, 57 >>

GLYPHS ==
    << 97, 98, 99, 100, 101, 102, 103, 104, 105, 106, 107, 109, 110,
       112, 113, 114, 115, 116, 117, 118, 119, 120, 121, 122,
       65, 66, 67, 68, 69, 70, 71, 72, 74, 75, 76, 77, 78,
       80, 81, 82, 83, 84, 85, 86, 87, 88, 89, 90,
       50, 51, 52, 53, 54, 55, 56, 57 >>

LEN_GLYPHS == Len(GLYPHS)

\* 'abcdefghijkmnpqrstuvwxyzABCDEFGHJKLMNPQRSTUVWXYZ'
LETTERS ==
    << 97, 98, 99, 100, 101, 102, 103, 104, 105, 106, 107, 109, 110,
       112, 113, 114, 115, 116, 117, 118, 119, 120, 121, 122,
       65, 66, 67, 68, 69, 70, 71, 72, 74, 75, 76, 77, 78,
       80, 81, 82, 83, 84, 85, 86, 87, 88, 89, 90 >>

\* 'abcdefghijkmnpqrstuvwxyz'
LOWERCASE ==
    << 97, 98, 99, 100, 101, 102, 103, 104, 105, 106, 107, 109, 110,
       112, 113, 114, 115, 116, 117, 118, 119, 120, 121, 122 >>

\* 'ABCDEFGHJKLMNPQRSTUVWXYZ'
UPPERCASE ==
    << 65, 66, 67, 68, 69, 70, 71, 72, 74, 75, 76, 77, 78,
       80, 81, 82, 83, 84, 85, 86, 87, 88, 89, 90 >>

\* '23456789'
DIGITS == << 50, 51, 52, 53, 54, 55, 56, 57 >>

\* 'lIoO01'
HOMOGLYPHS == << 108, 73, 111, 79, 48, 49 >>

DEFAULT_LENGTH == 5

(***************************************************************************)
(* Python values: a str, an int, a bool or None.                            *)
(***************************************************************************)
PyStr(s)  == [type |-> "str", chars |-> s, num |-> 0, bool |-> FALSE]
PyInt(n)  == [type |-> "int", chars |-> << >>, num |-> n, bool |-> FALSE]
PyBool(b) == [type |-> "bool", chars |-> << >>, num |-> 0, bool |-> b]
PyNone    == [type |-> "NoneType", chars |-> << >>, num |-> 0, bool |-> FALSE]

\* how a call ended
Return(v)  == [kind |-> "return", exc |-> "", val |-> v]
Raise(e)   == [kind |-> "raise", exc |-> e, val |-> PyNone]
NoResult   == [kind |-> "none", exc |-> "", val |-> PyNone]

Range(s) == { s[k] : k \in 1..Len(s) }

\* '*' * n
RECURSIVE Stars(_)
Stars(n) == IF n = 0 THEN << >> ELSE << 42 >> \o Stars(n - 1)

(***************************************************************************)
(* bytes(s, encoding='utf-8'), lines 118 and 146: the UTF-8 encoding of a   *)
(* str; a lone surrogate cannot be encoded (UnicodeEncodeError).            *)
(***************************************************************************)
IsSurrogate(cp) == cp >= 55296 /\ cp <= 57343

utf8char(cp) ==
    IF cp < 128 THEN << cp >>
    ELSE IF cp < 2048 THEN << 192 + (cp \div 64), 128 + (cp % 64) >>
    ELSE IF cp < 65536 THEN
        << 224 + (cp \div 4096), 128 + ((cp \div 64) % 64), 128 + (cp % 64) >>
    ELSE
        << 240 + (cp \div 262144), 128 + ((cp \div 4096) % 64),
           128 + ((cp \div 64) % 64), 128 + (cp % 64) >>

RECURSIVE utf8bytes(_)
utf8bytes(s) ==
    IF s = << >> THEN << >> ELSE utf8char(Head(s)) \o utf8bytes(Tail(s))

bytes_utf8(s) ==
    IF \E k \in 1..Len(s) : IsSurrogate(s[k])
    THEN [ok |-> FALSE, bytes |-> << >>]
    ELSE [ok |-> TRUE, bytes |-> utf8bytes(s)]

(***************************************************************************)
(* zlib.adler32(data), lines 118 and 146: a starts at 1 and b at 0; each    *)
(* byte is added to a, and a to b, both modulo 65521; the value is          *)
(* b * 65536 + a.                                                           *)
(***************************************************************************)
ADLER_BASE == 65521

RECURSIVE adlerLoop(_, _, _)
adlerLoop(data, a, b) ==
    IF data = << >> THEN (b * 65536) + a
    ELSE LET a2 == (a + Head(data)) % ADLER_BASE
             b2 == (b + a2) % ADLER_BASE
         IN  adlerLoop(Tail(data), a2, b2)

adler32_zeroStart(data) == adlerLoop(data, 0, 0)

adler32(data) == adlerLoop(data, 1, 0)

(***************************************************************************)
(* SYS_RAND.choice(seq), lines 53 and 101-109: any element of seq.  The     *)
(* model follows MaxDraw of the outcomes, spread evenly over seq, the       *)
(* first and the last element among them.                                   *)
(***************************************************************************)
SampleIdx(n) ==
    { 1 + ((j * (n - 1)) \div (MaxDraw - 1)) : j \in 0..(MaxDraw - 1) }

choice(seq) == { seq[k] : k \in SampleIdx(Len(seq)) }

(***************************************************************************)
(* The state.                                                               *)
(***************************************************************************)
VARIABLES
    globals,          \* the module's global names GLYPHS, LEN_GLYPHS, LETTERS, ...
    op,               \* the function being called: "none", "generate", "isValid", "_checkSSFormatArg"
    pc,               \* where the call stands: "idle", "while", "for", "checksum", "repeat", "returned", "raised"
    ssformat,         \* argument of generate and _checkSSFormatArg
    includeChecksum,  \* argument of generate
    repeatFunc,       \* argument of generate: None, or a predicate
    ss,               \* generate's local list ss
    i,                \* number of specifiers the for loop has consumed
    ssAsString,       \* generate's local ssAsString
    ssToCheck,        \* argument of isValid
    result,           \* how the call ended
    draws,            \* number of SYS_RAND.choice calls made by the current call
    attempts,         \* number of iterations of generate's while loop begun by the current call
    rfCalls,          \* number of calls of repeatFunc made by the current call
    rfArg,            \* argument of the latest call of repeatFunc
    rfTrue            \* number of calls of repeatFunc that answered True

vars == << globals, op, pc, ssformat, includeChecksum, repeatFunc, ss, i,
           ssAsString, ssToCheck, result, draws, attempts, rfCalls, rfArg, rfTrue >>

genLocals == << ss, i, ssAsString >>
history   == << draws, attempts, rfCalls, rfArg, rfTrue >>
genArgs   == << ssformat, includeChecksum, repeatFunc >>

(***************************************************************************)
(* The inputs of the calls.                                                 *)
(***************************************************************************)
SeqsUpTo(S, n) == UNION { [1..k -> S] : k \in 0..n }

\* the specifiers '*', 'c', 'l', 'u', 'd' and a symbol that is none of them, 'X'
FormatSyms == { 42, 99, 108, 117, 100, 88 }

\* format arguments: short strings and the non-string 42
Formats ==
    { PyStr(s) : s \in SeqsUpTo(FormatSyms, MaxFormatLen) } \cup { PyInt(42) }

\* the default format of generate, line 63: '*' * DEFAULT_LENGTH
DefaultFormat == PyStr(Stars(DEFAULT_LENGTH))

\* repeatFunc arguments: None, or a predicate that answers False at the latest
\* on its falseBy-th call (before that call it answers True or False)
NoRepeatFunc == [isNone |-> TRUE, falseBy |-> 0]
RepeatFuncs ==
    { NoRepeatFunc } \cup { [isNone |-> FALSE, falseBy |-> n] : n \in 1..MaxRepeat }

\* the calls of generate: every combination of the arguments above, and
\* generate() with the defaults of line 63
GenerateCalls ==
    [ssformat : Formats, includeChecksum : BOOLEAN, repeatFunc : RepeatFuncs]
        \cup { [ssformat |-> DefaultFormat, includeChecksum |-> TRUE,
                 repeatFunc |-> NoRepeatFunc] }

\* characters of isValid's candidates: 'a', the homoglyph 'l', U+00E9, U+20AC,
\* U+1F600 and the lone surrogate U+D800
CandChars == { 97, 108, 233, 8364, 128512, 55296 }

QEynbi == << 81, 69, 121, 110, 98, 105 >>
QEynbX == << 81, 69, 121, 110, 98, 88 >>

\* isValid arguments: the non-string 42, strings of fewer than 2 characters,
\* every payload followed by any glyph or candidate character, and the two
\* strings of the doctest
Candidates ==
    { PyInt(42) }
        \cup { PyStr(s) : s \in SeqsUpTo(CandChars, 1) }
        \cup { PyStr(Append(p, c)) :
                 p \in (SeqsUpTo(CandChars, MaxPayloadLen) \ { << >> }),
                 c \in Range(GLYPHS) \cup CandChars }
        \cup { PyStr(QEynbi), PyStr(QEynbX) }

(***************************************************************************)
(* Init: the module has been imported, lines 17-53.                         *)
(***************************************************************************)
ModuleGlobals ==
    [GLYPHS |-> GLYPHS, LEN_GLYPHS |-> LEN_GLYPHS, LETTERS |-> LETTERS,
     LOWERCASE |-> LOWERCASE, UPPERCASE |-> UPPERCASE, DIGITS |-> DIGITS,
     HOMOGLYPHS |-> HOMOGLYPHS, DEFAULT_LENGTH |-> DEFAULT_LENGTH]

Init ==
    /\ globals = ModuleGlobals
    /\ op = "none"
    /\ pc = "idle"
    /\ ssformat = PyNone
    /\ includeChecksum = TRUE
    /\ repeatFunc = NoRepeatFunc
    /\ ss = << >>
    /\ i = 0
    /\ ssAsString = << >>
    /\ ssToCheck = PyNone
    /\ result = NoResult
    /\ draws = 0
    /\ attempts = 0
    /\ rfCalls = 0
    /\ rfArg = << >>
    /\ rfTrue = 0

(***************************************************************************)
(* generate, lines 63-125.                                                  *)
(***************************************************************************)
\* the alphabet a specifier draws from, lines 100-109
AlphabetFor_digitsAreGlyphs(specifier) ==
    IF specifier = 42 THEN globals.GLYPHS
    ELSE IF specifier = 99 THEN globals.LETTERS
    ELSE IF specifier = 100 THEN globals.GLYPHS
    ELSE IF specifier = 108 THEN globals.LOWERCASE
    ELSE globals.UPPERCASE

AlphabetFor(specifier) ==
    IF specifier = 42 THEN globals.GLYPHS
    ELSE IF specifier = 99 THEN globals.LETTERS
    ELSE IF specifier = 100 THEN globals.DIGITS
    ELSE IF specifier = 108 THEN globals.LOWERCASE
    ELSE globals.UPPERCASE

\* the specifiers the if/elif chain of lines 100-109 accepts
IsSpecifier(c) == c \in { 42, 99, 100, 108, 117 }

\* the checksum character of lines 114-119; ss holds glyphs only, which
\* are ASCII, so bytes() cannot fail here
checksumChar(chars) ==
    globals.GLYPHS[(adler32(bytes_utf8(chars).bytes) % globals.LEN_GLYPHS) + 1]

\* lines 114-119: ss after "Add checksum, if needed"
withChecksum_never(chars, include) == chars

withChecksum(chars, include) ==
    IF include THEN Append(chars, checksumChar(chars)) ELSE chars

\* line 123: the string is returned when repeatFunc answers False
notRepeat_inverted(answer) == answer

notRepeat(answer) == ~answer

\* the answers the predicate may give on its n-th call
Answers(rf, n) == IF n >= rf.falseBy THEN { FALSE } ELSE BOOLEAN

\* the caller calls generate(ssformat, includeChecksum, repeatFunc), line 63
CallGenerate ==
    /\ pc = "idle"
    /\ \E call \in GenerateCalls :
          /\ ssformat' = call.ssformat
          /\ includeChecksum' = call.includeChecksum
          /\ repeatFunc' = call.repeatFunc
    /\ op' = "generate"
    /\ pc' = "while"
    /\ UNCHANGED << globals, ss, i, ssAsString, ssToCheck, result, history >>

\* lines 96-97: an iteration of "while True" begins, ss = []
StartAttempt ==
    /\ pc = "while"
    /\ ss' = << >>
    /\ i' = 0
    /\ attempts' = attempts + 1
    /\ pc' = "for"
    /\ UNCHANGED << globals, op, genArgs, ssAsString, ssToCheck, result,
                    draws, rfCalls, rfArg, rfTrue >>

\* line 99: enumerate(ssformat) of a value that is not iterable
ForNotIterable ==
    /\ pc = "for"
    /\ ssformat.type # "str"
    /\ result' = Raise("TypeError")
    /\ pc' = "raised"
    /\ UNCHANGED << globals, op, genArgs, genLocals, ssToCheck, history >>

\* lines 99-109: one iteration of the for loop on a specifier
ForDraw ==
    /\ pc = "for"
    /\ ssformat.type = "str"
    /\ i < Len(ssformat.chars)
    /\ IsSpecifier(ssformat.chars[i + 1])
    /\ \E c \in choice(AlphabetFor(ssformat.chars[i + 1])) :
          ss' = Append(ss, c)
    /\ i' = i + 1
    /\ draws' = draws + 1
    /\ UNCHANGED << globals, op, pc, genArgs, ssAsString, ssToCheck, result,
                    attempts, rfCalls, rfArg, rfTrue >>

\* lines 110-111: the for loop meets a symbol that is no specifier
ForInvalidSpecifier ==
    /\ pc = "for"
    /\ ssformat.type = "str"
    /\ i < Len(ssformat.chars)
    /\ ~IsSpecifier(ssformat.chars[i + 1])
    /\ result' = Raise("ShortStrException")
    /\ pc' = "raised"
    /\ UNCHANGED << globals, op, genArgs, genLocals, ssToCheck, history >>

\* line 99: the for loop is exhausted
ForExit ==
    /\ pc = "for"
    /\ ssformat.type = "str"
    /\ i = Len(ssformat.chars)
    /\ pc' = "checksum"
    /\ UNCHANGED << globals, op, genArgs, genLocals, ssToCheck, result, history >>

\* lines 113-121: the checksum is appended if asked for, ssAsString = ''.join(ss)
AddChecksum ==
    /\ pc = "checksum"
    /\ ss' = withChecksum(ss, includeChecksum)
    /\ ssAsString' = ss'
    /\ pc' = "repeat"
    /\ UNCHANGED << globals, op, genArgs, i, ssToCheck, result, history >>

\* lines 123-124 with repeatFunc None: ssAsString is returned
ReturnUnchecked ==
    /\ pc = "repeat"
    /\ repeatFunc.isNone
    /\ result' = Return(PyStr(ssAsString))
    /\ pc' = "returned"
    /\ UNCHANGED << globals, op, genArgs, genLocals, ssToCheck, history >>

\* lines 123-125 with a repeatFunc: it is called on ssAsString; the string is
\* returned if it is no repeat, and the while loop goes round otherwise
CallRepeatFunc ==
    /\ pc = "repeat"
    /\ ~repeatFunc.isNone
    /\ rfCalls' = rfCalls + 1
    /\ rfArg' = ssAsString
    /\ \E answer \in Answers(repeatFunc, rfCalls + 1) :
          /\ rfTrue' = IF answer THEN rfTrue + 1 ELSE rfTrue
          /\ IF notRepeat(answer)
             THEN /\ result' = Return(PyStr(ssAsString))
                  /\ pc' = "returned"
             ELSE /\ result' = result
                  /\ pc' = "while"
    /\ UNCHANGED << globals, op, genArgs, genLocals, ssToCheck, draws, attempts >>

(***************************************************************************)
(* isValid, lines 128-148.                                                  *)
(***************************************************************************)
isValid(v) ==
    IF v.type # "str" \/ Len(v.chars) < 2
    THEN Raise("ShortStrException")
    ELSE LET n    == Len(v.chars)
             data == bytes_utf8(SubSeq(v.chars, 1, n - 1))
         IN  IF ~data.ok
             THEN Raise("UnicodeEncodeError")
             ELSE Return(PyBool(v.chars[n] =
                     globals.GLYPHS[(adler32(data.bytes) % globals.LEN_GLYPHS) + 1]))

\* the caller calls isValid(ssToCheck); the call runs to its end
CallIsValid ==
    /\ pc = "idle"
    /\ \E v \in Candidates :
          /\ ssToCheck' = v
          /\ result' = isValid(v)
    /\ op' = "isValid"
    /\ pc' = IF result'.kind = "return" THEN "returned" ELSE "raised"
    /\ UNCHANGED << globals, genArgs, genLocals, history >>

(***************************************************************************)
(* _checkSSFormatArg, lines 151-172.                                        *)
(***************************************************************************)
_checkSSFormatArg(v) ==
    IF v = PyStr(<< >>) THEN Raise("ShortStrException")
    ELSE IF v.type # "str" THEN Raise("ShortStrException")
    ELSE IF \E k \in 1..Len(v.chars) : ~(v.chars[k] \in { 42, 99, 108, 117, 100 })
         THEN Raise("ShortStrException")
    ELSE Return(PyNone)

\* the caller calls _checkSSFormatArg(ssformat); the call runs to its end
CallCheckSSFormatArg ==
    /\ pc = "idle"
    /\ \E f \in Formats :
          /\ ssformat' = f
          /\ result' = _checkSSFormatArg(f)
    /\ op' = "_checkSSFormatArg"
    /\ pc' = IF result'.kind = "return" THEN "returned" ELSE "raised"
    /\ UNCHANGED << globals, includeChecksum, repeatFunc, genLocals, ssToCheck, history >>

(***************************************************************************)
(* The caller has the outcome of a call and is free to make the next one;   *)
(* a call keeps nothing of the one before it.                               *)
(***************************************************************************)
CallEnds ==
    /\ pc \in { "returned", "raised" }
    /\ pc' = "idle"
    /\ op' = "none"
    /\ ssformat' = PyNone
    /\ includeChecksum' = TRUE
    /\ repeatFunc' = NoRepeatFunc
    /\ ss' = << >>
    /\ i' = 0
    /\ ssAsString' = << >>
    /\ ssToCheck' = PyNone
    /\ result' = NoResult
    /\ draws' = 0
    /\ attempts' = 0
    /\ rfCalls' = 0
    /\ rfArg' = << >>
    /\ rfTrue' = 0
    /\ UNCHANGED globals

Next ==
    \/ CallGenerate
    \/ StartAttempt
    \/ ForNotIterable
    \/ ForDraw
    \/ ForInvalidSpecifier
    \/ ForExit
    \/ AddChecksum
    \/ ReturnUnchecked
    \/ CallRepeatFunc
    \/ CallIsValid
    \/ CallCheckSSFormatArg
    \/ CallEnds

Spec == Init /\ [][Next]_vars

(***************************************************************************)
(* The properties.                                                          *)
(***************************************************************************)
Done == pc \in { "returned", "raised" }
GenReturned == op = "generate" /\ pc = "returned"
IsValidDone == op = "isValid" /\ Done
True  == Return(PyBool(TRUE))
False == Return(PyBool(FALSE))

\* the format language of the documentation: '*', 'c', 'l', 'u', 'd'
FormatLanguage == { 42, 99, 108, 117, 100 }
ValidFormat(v) ==
    /\ v.type = "str"
    /\ v.chars # << >>
    /\ \A k \in 1..Len(v.chars) : v.chars[k] \in FormatLanguage
InvalidFormat(v) ==
    /\ v.type = "str"
    /\ \/ v.chars = << >>
       \/ \E k \in 1..Len(v.chars) : v.chars[k] \notin FormatLanguage

\* the homoglyphs l, I, o, O, 0, 1
Homoglyphs == { 108, 73, 111, 79, 48, 49 }

ChecksumLen == IF includeChecksum THEN 1 ELSE 0

\* C1: a call of generate with a format string that is empty or holds a
\* symbol outside {*, c, l, u, d} ends in ShortStrException, whatever
\* includeChecksum and repeatFunc are, and returns no string.
C1_GenerateRejectsInvalidFormat ==
    (op = "generate" /\ Done /\ InvalidFormat(ssformat))
        => result = Raise("ShortStrException")

\* C2: isValid returns True on every string that generate returns with
\* includeChecksum=True.
C2_ChecksumRoundTrip ==
    (GenReturned /\ includeChecksum) => isValid(result.val) = True

\* the alphabet the documentation gives each specifier
ClassOf(specifier) ==
    CASE specifier = 42  -> Range(GLYPHS)
      [] specifier = 99  -> Range(LETTERS)
      [] specifier = 108 -> Range(LOWERCASE)
      [] specifier = 117 -> Range(UPPERCASE)
      [] specifier = 100 -> Range(DIGITS)

\* C3: in a string that generate returns, the character at each position of
\* the format belongs to the alphabet of the specifier at that position, and
\* no character, the checksum character included, is a homoglyph.
C3_ClassConformance ==
    GenReturned =>
        /\ \A k \in 1..Len(ssformat.chars) :
              /\ k <= Len(result.val.chars)
              /\ result.val.chars[k] \in ClassOf(ssformat.chars[k])
        /\ \A k \in 1..Len(result.val.chars) :
              result.val.chars[k] \notin Homoglyphs

\* generate has returned a checksummed string for the format 'dl'
C3_Witness ==
    /\ GenReturned
    /\ includeChecksum
    /\ ssformat = PyStr(<< 100, 108 >>)
    /\ Len(result.val.chars) = 3

C5_RepeatCheck ==
    (op = "generate" /\ ValidFormat(ssformat)) =>
        IF repeatFunc.isNone
        THEN /\ rfCalls = 0
             /\ attempts <= 1
             /\ pc = "returned" =>
                  /\ attempts = 1
                  /\ result = Return(PyStr(ssAsString))
        ELSE /\ attempts <= repeatFunc.falseBy
             /\ rfCalls = IF pc \in { "for", "checksum", "repeat" }
                          THEN attempts - 1 ELSE attempts
             /\ rfCalls > 0 =>
                  Len(rfArg) = Len(ssformat.chars) + ChecksumLen
             /\ pc \in { "while", "returned" } /\ rfCalls > 0 => rfArg = ssAsString
             /\ pc # "returned" => rfTrue = rfCalls
             /\ pc = "returned" =>
                  /\ rfTrue = rfCalls - 1
                  /\ result = Return(PyStr(rfArg))

\* generate has returned on its second attempt: repeatFunc answered True to
\* the first string and False to the second
C5_Witness ==
    /\ GenReturned
    /\ ValidFormat(ssformat)
    /\ ~repeatFunc.isNone
    /\ attempts = 2
    /\ rfCalls = 2
    /\ rfTrue = 1

\* C6: isValid raises ShortStrException exactly when its argument is not a
\* string or has fewer than 2 characters; on every string of 2 characters
\* or more it returns a boolean and does not raise.
C6_IsValidInputRejection ==
    IsValidDone =>
        /\ (result = Raise("ShortStrException"))
              <=> (ssToCheck.type # "str" \/ Len(ssToCheck.chars) < 2)
        /\ (ssToCheck.type = "str" /\ Len(ssToCheck.chars) >= 2)
              => (result.kind = "return" /\ result.val.type = "bool")

\* the reference Adler-32 in closed form: a = 1 + the sum of the bytes,
\* b = n + the sum of (n - k + 1) * byte k, both modulo 65521
RECURSIVE ByteSum(_, _)
ByteSum(data, k) == IF k = 0 THEN 0 ELSE ByteSum(data, k - 1) + data[k]

RECURSIVE WeightedSum(_, _)
WeightedSum(data, k) ==
    IF k = 0 THEN 0
    ELSE WeightedSum(data, k - 1) + ((Len(data) - k + 1) * data[k])

RefAdler32(data) ==
    LET a == (1 + ByteSum(data, Len(data))) % 65521
        b == (Len(data) + WeightedSum(data, Len(data))) % 65521
    IN  (b * 65536) + a

Payload(v) == SubSeq(v.chars, 1, Len(v.chars) - 1)
Last(v) == v.chars[Len(v.chars)]

\* C7: on a string of 2 characters or more, isValid returns True exactly
\* when the last character is GLYPHS[adler32(bytes of the rest) mod 56]; no
\* character is checked against the alphabet; isValid("QEynbi") is True and
\* isValid("QEynbX") is False.
C7_ReferenceChecksum ==
    (IsValidDone /\ ssToCheck.type = "str" /\ Len(ssToCheck.chars) >= 2) =>
        /\ (result = True) <=>
              /\ bytes_utf8(Payload(ssToCheck)).ok
              /\ Last(ssToCheck) =
                    GLYPHS[(RefAdler32(bytes_utf8(Payload(ssToCheck)).bytes) % 56) + 1]
        /\ ssToCheck = PyStr(QEynbi) => result = True
        /\ ssToCheck = PyStr(QEynbX) => result = False

\* isValid has returned True on a string that holds a character outside
\* the glyph alphabet
C7_Witness ==
    /\ IsValidDone
    /\ result = True
    /\ \E k \in 1..Len(ssToCheck.chars) : ssToCheck.chars[k] \notin Range(GLYPHS)

\* C8: replacing the last character of a string that isValid accepts by any
\* other glyph gives a string that isValid answers False to; for every
\* payload exactly one of the 56 glyphs is accepted as its last character.
C8_ChecksumSensitivity ==
    (IsValidDone /\ ssToCheck.type = "str" /\ Len(ssToCheck.chars) >= 2) =>
        /\ result = True =>
              \A g \in Range(GLYPHS) \ { Last(ssToCheck) } :
                  isValid(PyStr(Append(Payload(ssToCheck), g))) = False
        /\ Cardinality({ g \in Range(GLYPHS) :
              isValid(PyStr(Append(Payload(ssToCheck), g))) = True }) = 1

\* C9: GLYPHS is 56 distinct characters, none a homoglyph; LETTERS,
\* LOWERCASE, UPPERCASE and DIGITS are subsets of it; no operation changes
\* these constants.
C9_AlphabetInvariant ==
    /\ globals = ModuleGlobals
    /\ Len(globals.GLYPHS) = 56
    /\ globals.LEN_GLYPHS = 56
    /\ Cardinality(Range(globals.GLYPHS)) = 56
    /\ Range(globals.GLYPHS) \cap Homoglyphs = { }
    /\ Range(globals.LETTERS) \subseteq Range(globals.GLYPHS)
    /\ Range(globals.LOWERCASE) \subseteq Range(globals.GLYPHS)
    /\ Range(globals.UPPERCASE) \subseteq Range(globals.GLYPHS)
    /\ Range(globals.DIGITS) \subseteq Range(globals.GLYPHS)

\* the alphabets after generate has drawn from them and returned a string
C9_Witness ==
    /\ GenReturned
    /\ draws > 0
    /\ includeChecksum
    /\ globals.GLYPHS = GLYPHS

\* C10: when generate raises the format error, no character has been drawn
\* from the random source and no partial result has been built.
C10_NoDrawBeforeFormatError ==
    (op = "generate" /\ pc = "raised" /\ result = Raise("ShortStrException"))
        => (draws = 0 /\ ss = << >>)

====
